---- MODULE Spec2Model ----
(***************************************************************************)
(* Model of the data-simulation and dual-store synchronisation engine of   *)
(* backend/data_simulator.py: DatabaseManager (relational store),          *)
(* CSVManager (tabular store), DataSimulator (fluctuation, publication and *)
(* the simulation cycle) and the main loop that drives the cycles.         *)
(*                                                                         *)
(* Spec follows the process through MaxCycles simulation cycles over three *)
(* files, SpecTwoCycles through one cycle more, and SpecBatch over one file *)
(* whose calls build batches of one or two records.  A behaviour meets at   *)
(* most MaxFaults disturbances: failing calls and termination signals.      *)
(*                                                                         *)
(* Values.  Integers are integers, booleans are booleans, strings are      *)
(* strings; a float is held in hundredths (3550 is 35.50).                 *)
(* Time is a count of seconds.                                             *)
(***************************************************************************)
EXTENDS Integers, Sequences, FiniteSets, TLC

\* ------------------------------------------------------------------ bounds
\* number of simulation cycles a behaviour may start (SpecTwoCycles: one more)
MaxCycles == 1
\* number of disturbances in a behaviour: a failing call (of a store, of the
\* probe, of the transport) or a termination signal
MaxFaults == 1

\* ------------------------------------------------------- program constants
MAX_RETRIES == 5
RETRY_DELAY_BASE == 2
\* main(): for _ in range(30): ... time.sleep(1)
CycleWaitSeconds == 30
ReconnectCooldown == 10

PROTECTED_COLUMNS == {"id", "location", "latitude", "longitude", "bus_id"}

COLUMN_TYPES ==
  [ traffic_sensors           |-> [vehicle_count |-> "int", avg_speed |-> "float"],
    air_quality_sensors       |-> [pm25 |-> "float", pm10 |-> "float", no2 |-> "float", co |-> "float"],
    noise_sensors             |-> [decibel_level |-> "float"],
    weather_stations          |-> [temperature |-> "float", humidity |-> "float",
                                   rainfall |-> "float", wind_speed |-> "float"],
    smart_meters              |-> [electricity_usage |-> "float", water_usage |-> "float"],
    waste_bins                |-> [fill_level |-> "float", temperature |-> "float"],
    parking_sensors           |-> [is_occupied |-> "bool"],
    street_lights             |-> [status |-> "bool", energy_consumption |-> "float"],
    public_transport_trackers |-> [bus_id |-> "str", occupancy |-> "int"],
    surveillance_cameras      |-> [motion_detected |-> "bool", object_count |-> "int"],
    water_quality_sensors     |-> [ph |-> "float", turbidity |-> "float", dissolved_oxygen |-> "float"],
    energy_grid_sensors       |-> [voltage |-> "float", current |-> "float", frequency |-> "float"] ]

\* ----------------------------------------------------------------- helpers
Max(a, b) == IF a >= b THEN a ELSE b
Min(a, b) == IF a <= b THEN a ELSE b

\* value * (1 + pct/100) on hundredths, rounded to the nearest hundredth
Jitter(value, pct) == (value * (100 + pct) + 50) \div 100

\* the random draws one row consumes: flip is random.random() < 0.1,
\* delta is random.randint(-3, 3), pct is random.uniform(-0.07, 0.07) in
\* whole percent.  Each column reads the field of its declared type.
Draw(f, d, p) == [flip |-> f, delta |-> d, pct |-> p]
NoDraw == Draw(FALSE, 0, 0)

\* ------------------------------------------------------ FluctuationEngine
\* a fluctuation whose float columns are never clamped
generate_fluctuation_unclamped(value, column_type, column_name, street, hour, d) ==
  IF column_name = "status" /\ column_type = "bool" /\ street
  THEN (hour >= 18 \/ hour < 6)
  ELSE IF column_name \in PROTECTED_COLUMNS THEN value
  ELSE IF column_type = "bool" THEN (IF d.flip THEN ~value ELSE value)
  ELSE IF column_type = "int" /\ column_name \in {"vehicle_count", "occupancy", "object_count"}
       THEN Max(0, value + d.delta)
  ELSE IF column_type = "int" THEN value + d.delta
  ELSE IF column_type = "float" THEN Jitter(value, d.pct)
  ELSE value

\* a fluctuation whose street lights are still on at six in the morning
generate_fluctuation_on_at_six(value, column_type, column_name, street, hour, d) ==
  IF column_name = "status" /\ column_type = "bool" /\ street
  THEN (hour >= 18 \/ hour <= 6)
  ELSE IF column_name \in PROTECTED_COLUMNS THEN value
  ELSE IF column_type = "bool" THEN (IF d.flip THEN ~value ELSE value)
  ELSE IF column_type = "int" /\ column_name \in {"vehicle_count", "occupancy", "object_count"}
       THEN Max(0, value + d.delta)
  ELSE IF column_type = "int" THEN value + d.delta
  ELSE IF column_type = "float" /\ column_name \in {"humidity", "fill_level"}
       THEN Min(10000, Max(0, Jitter(value, d.pct)))
  ELSE IF column_type = "float" /\ column_name = "ph"
       THEN Min(1400, Max(0, Jitter(value, d.pct)))
  ELSE IF column_type = "float"
          /\ column_name \in {"rainfall", "electricity_usage", "water_usage", "energy_consumption"}
       THEN Max(0, Jitter(value, d.pct))
  ELSE IF column_type = "float" THEN Jitter(value, d.pct)
  ELSE value

generate_fluctuation(value, column_type, column_name, street, hour, d) ==
  IF column_name = "status" /\ column_type = "bool" /\ street
  THEN (hour >= 18 \/ hour < 6)
  ELSE IF column_name \in PROTECTED_COLUMNS THEN value
  ELSE IF column_type = "bool" THEN (IF d.flip THEN ~value ELSE value)
  ELSE IF column_type = "int" /\ column_name \in {"vehicle_count", "occupancy", "object_count"}
       THEN Max(0, value + d.delta)
  ELSE IF column_type = "int" THEN value + d.delta
  ELSE IF column_type = "float" /\ column_name \in {"humidity", "fill_level"}
       THEN Min(10000, Max(0, Jitter(value, d.pct)))
  ELSE IF column_type = "float" /\ column_name = "ph"
       THEN Min(1400, Max(0, Jitter(value, d.pct)))
  ELSE IF column_type = "float"
          /\ column_name \in {"rainfall", "electricity_usage", "water_usage", "energy_consumption"}
       THEN Max(0, Jitter(value, d.pct))
  ELSE IF column_type = "float" THEN Jitter(value, d.pct)
  ELSE value


\* ----------------------------------------------------------- TabularStore
\* outcome of each attempt of a retried operation: "ok" or "error"
FailThenOk(k) == [i \in 1..MAX_RETRIES |-> IF i <= k THEN "error" ELSE "ok"]

\* the retry loop shared by read_csv and write_csv: the attempt numbered
\* retry_count + 1 either returns or fails; a failure is followed by a wait of
\* RETRY_DELAY_BASE ** retry_count, or is raised once retry_count has reached
\* MAX_RETRIES.  A loop that is never entered returns None.
RECURSIVE csv_retry(_, _, _)
csv_retry(outcomes, retry_count, waited) ==
  IF retry_count < MAX_RETRIES
  THEN IF outcomes[retry_count + 1] = "ok"
       THEN [result |-> "returned", attempts |-> retry_count + 1, waited |-> waited]
       ELSE IF retry_count + 1 < MAX_RETRIES
            THEN csv_retry(outcomes, retry_count + 1,
                           waited + RETRY_DELAY_BASE ^ (retry_count + 1))
            ELSE [result |-> "raised", attempts |-> retry_count + 1, waited |-> waited]
  ELSE [result |-> "none", attempts |-> retry_count, waited |-> waited]

read_csv(outcomes) == csv_retry(outcomes, 0, 0)
write_csv(outcomes) == csv_retry(outcomes, 0, 0)

\* -------------------------------------------------------- RelationalStore
\* DatabaseManager.__init__ before its connect() call
NewDatabaseManager ==
  [engine |-> "None", connection_healthy |-> FALSE, last_reconnect_attempt |-> 0]

\* what connect() or ensure_connected() hands back: the value returned (or
\* that an error was raised to the caller), the manager after the call, the
\* number of connect-and-probe attempts, the seconds slept between them
ConnResult(ret, raised, dbm, attempts, waited) ==
  [ret |-> ret, raised |-> raised, dbm |-> dbm, attempts |-> attempts, waited |-> waited]

\* a connect() whose exhausted retry loop raises to the caller instead of
\* returning False
RECURSIVE connect_loop_raising(_, _, _, _)
connect_loop_raising(dbm, outcomes, retry_count, waited) ==
  IF retry_count < MAX_RETRIES
  THEN LET d == [dbm EXCEPT !.engine = "engine"]
       IN IF outcomes[retry_count + 1] = "ok"
          THEN ConnResult(TRUE, FALSE, [d EXCEPT !.connection_healthy = TRUE],
                          retry_count + 1, waited)
          ELSE connect_loop_raising(d, outcomes, retry_count + 1,
                                    waited + RETRY_DELAY_BASE ^ (retry_count + 1))
  ELSE ConnResult(FALSE, TRUE, dbm, retry_count, waited)

\* the retry loop of connect(): attempt retry_count + 1 creates the engine and
\* probes it; a probe that raises SQLAlchemyError is counted, waited for and
\* retried
RECURSIVE connect_loop(_, _, _, _)
connect_loop(dbm, outcomes, retry_count, waited) ==
  IF retry_count < MAX_RETRIES
  THEN LET d == [dbm EXCEPT !.engine = "engine"]
       IN IF outcomes[retry_count + 1] = "ok"
          THEN ConnResult(TRUE, FALSE, [d EXCEPT !.connection_healthy = TRUE],
                          retry_count + 1, waited)
          ELSE connect_loop(d, outcomes, retry_count + 1,
                            waited + RETRY_DELAY_BASE ^ (retry_count + 1))
  ELSE ConnResult(FALSE, FALSE, [dbm EXCEPT !.connection_healthy = FALSE],
                  retry_count, waited)

connect(dbm, t, outcomes) ==
  IF t - dbm.last_reconnect_attempt < ReconnectCooldown
  THEN ConnResult(dbm.connection_healthy, FALSE, dbm, 0, 0)
  ELSE connect_loop([dbm EXCEPT !.last_reconnect_attempt = t], outcomes, 0, 0)

\* probe is the outcome of the SELECT 1 round trip on the existing engine
ensure_connected(dbm, t, probe, outcomes) ==
  IF ~dbm.connection_healthy \/ dbm.engine = "None"
  THEN connect(dbm, t, outcomes)
  ELSE IF probe = "ok" THEN ConnResult(TRUE, FALSE, dbm, 0, 0)
       ELSE connect(dbm, t, outcomes)

\* UPDATE <table> SET <the record's columns>, timestamp WHERE id = :id
sql_update(tbl, record, ts) ==
  [id \in DOMAIN tbl |->
     IF id = record["id"]
     THEN [c \in DOMAIN tbl[id] |->
             IF c = "timestamp" THEN ts
             ELSE IF c \in DOMAIN record THEN record[c] ELSE tbl[id][c]]
     ELSE tbl[id]]

\* the session's statements, in order; failAt = k makes the k-th execute
\* raise, failAt = Len(data) + 1 makes the commit raise, 0 lets all pass
RECURSIVE session_execute(_, _, _, _, _)
session_execute(work, data, i, failAt, ts) ==
  IF i > Len(data) THEN [ok |-> failAt = 0, work |-> work]
  ELSE IF failAt = i THEN [ok |-> FALSE, work |-> work]
  ELSE session_execute(sql_update(work, data[i], ts), data, i + 1, failAt, ts)

\* a rollback that keeps the statements executed before the error
session_rollback_partial(durable, work) == work

\* session.rollback(): the durable table is the one before the session
session_rollback(durable, work) == durable

\* session.commit(): the session's work becomes durable
session_commit(durable, work) == work

\* "connection" in str(e).lower() or "timeout" in str(e).lower()
IsConnectionError(text) == text \in {"connection", "timeout"}

\* what a caller of connect() or ensure_connected() saw: the attempt outcomes
\* given, the attempts made, the value returned, whether an error was raised,
\* and connection_healthy as the call left it
Conn(ec, outcomes) ==
  [outcomes |-> outcomes, attempts |-> ec.attempts, ret |-> ec.ret, raised |-> ec.raised,
   healthy |-> ec.dbm.connection_healthy]
NoConn ==
  [outcomes |-> <<>>, attempts |-> 0, ret |-> FALSE, raised |-> FALSE, healthy |-> FALSE]

\* the record of the last call that ran the retry loop, after one more call
Seen(prev, conn) == IF conn.attempts > 0 THEN conn ELSE prev

\* inp: [probe, outcomes, failAt, error] are the outcomes met by the call; the
\* timestamp of the UPDATE is taken when the record is handled
update_sensor_data(dbm, tbl, data, t, inp) ==
  LET ec == ensure_connected(dbm, t, inp.probe, inp.outcomes)
  IN IF ~ec.ret
     THEN [ret |-> FALSE, dbm |-> ec.dbm, tbl |-> tbl, waited |-> ec.waited,
           conn |-> Conn(ec, inp.outcomes)]
     ELSE LET ex == session_execute(tbl, data, 1, inp.failAt, t + ec.waited)
          IN IF ex.ok
             THEN [ret |-> TRUE, dbm |-> ec.dbm, tbl |-> session_commit(tbl, ex.work),
                   waited |-> ec.waited, conn |-> Conn(ec, inp.outcomes)]
             ELSE [ret |-> FALSE,
                   dbm |-> IF IsConnectionError(inp.error)
                           THEN [ec.dbm EXCEPT !.connection_healthy = FALSE]
                           ELSE ec.dbm,
                   tbl |-> session_rollback(tbl, ex.work),
                   waited |-> ec.waited, conn |-> Conn(ec, inp.outcomes)]

\* ----------------------------------------------------------- DataSimulator
\* DataSimulator.__init__: the statistics
NewStats ==
  [updates_attempted |-> 0, updates_successful |-> 0, updates_failed |-> 0,
   last_update_time |-> -1, files_processed |-> [x \in {} |-> 0]]

\* one entry of the record of the calls a handler made
Call(op, ok) == [op |-> op, ok |-> ok]

\* a publisher that lets the transport's exception leave the function
publish_to_mqtt_raising(client, record, transport) ==
  IF client = "None" THEN [ret |-> FALSE, raised |-> FALSE]
  ELSE IF transport = "raise" THEN [ret |-> FALSE, raised |-> TRUE]
  ELSE [ret |-> transport = "ok", raised |-> FALSE]

\* client is "None" when no transport is configured; transport is what
\* client.publish does: "ok", "rc" (a non-success return code) or "raise".
\* The result is the value returned and whether an error leaves the function.
publish_to_mqtt(client, record, transport) ==
  IF client = "None" THEN [ret |-> FALSE, raised |-> FALSE]
  ELSE IF transport = "raise" THEN [ret |-> FALSE, raised |-> FALSE]
  ELSE [ret |-> transport = "ok", raised |-> FALSE]

\* a draw between one and the whole population
NumToUpdate_whole(n) == 1 .. n

\* random.randint(max(1, int(n * 0.3)), max(1, int(n * 0.7))).  The double
\* products n * 0.3 and n * 0.7 truncate to the integer quotients for every
\* n below 90 (int(90 * 0.7) is 62), which covers the populations drawn here.
NumToUpdate(n) == Max(1, (n * 3) \div 10) .. Max(1, (n * 7) \div 10)

\* random.sample(range(n), k): k distinct indices.  The order of a sample only
\* orders the publications and the statements of the batch, and the ids of a
\* table are distinct, so each selection is taken in ascending order.
Sample(n, k) == {s \in [1..k -> 1..n] : \A i, j \in 1..k : i < j => s[i] < s[j]}

\* the columns of one row after fluctuation, before the timestamp is rewritten
fluctuate_row(row, types, street, hour, d) ==
  [c \in DOMAIN row |->
     IF c \in DOMAIN types
     THEN generate_fluctuation(row[c], types[c], c, street, hour, d)
     ELSE row[c]]

\* a record built from the row as it was read, before fluctuation
make_record_stale(row, idx, new, types) ==
  [c \in ((DOMAIN row) \cap (DOMAIN types)) \cup {"id"} |-> row[c]]

\* a record that loses the row's id (record.get("id", "unknown") finds none)
make_record_anonymous(row, idx, new, types) ==
  [c \in ((DOMAIN row) \cap (DOMAIN types)) \cup {"id"} |->
     IF c = "id" THEN "unknown" ELSE new[c]]

\* the record queued for the relational store and published for the row at idx
make_record(row, idx, new, types) ==
  [c \in ((DOMAIN row) \cap (DOMAIN types)) \cup {"id"} |->
     IF c = "id" THEN row["id"] ELSE new[c]]

\* df.at[idx, 'timestamp'] = current_time, when the table has the column
stamp(row, t) == IF "timestamp" \in DOMAIN row THEN [row EXCEPT !["timestamp"] = t] ELSE row

\* the loop over rows_to_update: acc is [df, db_updates, calls, raised]
RECURSIVE mutate_rows(_, _, _, _, _)
mutate_rows(acc, rows, i, types, env) ==
  IF i > Len(rows) \/ acc.raised THEN acc
  ELSE LET idx == rows[i]
           row == acc.df[idx]
           new == fluctuate_row(row, types, env.street, env.hour, env.draws[i])
           record == make_record(row, idx, new, types)
           sent == publish_to_mqtt(env.mqtt, record, env.transport)
       IN mutate_rows([df |-> [acc.df EXCEPT ![idx] = stamp(new, env.now)],
                       db_updates |-> Append(acc.db_updates, record),
                       calls |-> Append(acc.calls, Call("publish_to_mqtt", sent.ret)),
                       raised |-> sent.raised],
                      rows, i + 1, types, env)

\* statistics that count a success when either write succeeded
record_result_either(stats, table, csv_result, db_result, t) ==
  LET s1 == [stats EXCEPT !.updates_attempted = @ + 1]
      s2 == IF csv_result \/ db_result
            THEN [s1 EXCEPT !.updates_successful = @ + 1]
            ELSE [s1 EXCEPT !.updates_failed = @ + 1]
  IN [s2 EXCEPT !.last_update_time = t]

\* lines 491-499: the statistics after both writes were attempted
record_result(stats, table, csv_result, db_result, t) ==
  LET s1 == [stats EXCEPT !.updates_attempted = @ + 1]
      s2 == IF csv_result /\ db_result
            THEN [s1 EXCEPT !.updates_successful = @ + 1,
                            !.files_processed =
                               [x \in DOMAIN @ \cup {table} |->
                                  IF x = table
                                  THEN (IF table \in DOMAIN @ THEN @[table] ELSE 0) + 1
                                  ELSE @[x]]]
            ELSE [s1 EXCEPT !.updates_failed = @ + 1]
  IN [s2 EXCEPT !.last_update_time = t]

\* lines 505-509: the handler of an exception raised while a table is processed
on_exception(stats) == [stats EXCEPT !.updates_failed = @ + 1]

\* what one call of simulate_data_changes did: the calls it made in order, the
\* rows it selected, the batch it built, whether the table differed from the
\* original, whether an exception reached its handler, and what it returned
Info(table, calls, rows, batch, changed, raised, ret) ==
  [table |-> table, calls |-> calls, rows |-> rows, batch |-> batch,
   changed |-> changed, raised |-> raised, ret |-> ret]

\* st: [csv, db, dbm, stats, mqtt, now] are the table's file, its relational
\* table, the objects the call uses and the time; a call leaves them as st
Outcome(st, info, conn) ==
  [csv |-> st.csv, db |-> st.db, dbm |-> st.dbm, stats |-> st.stats, now |-> st.now,
   info |-> info, conn |-> conn]

\* lines 505-509 reached with the calls made so far
handled(table, st, calls, rows, batch, changed) ==
  Outcome([st EXCEPT !.stats = on_exception(@)],
          Info(table, calls, rows, batch, changed, TRUE, FALSE), NoConn)

\* lines 488-501: the table differs from the original
persist(table, st, acc, rows, inp) ==
  LET wr == write_csv(inp.write)
      calls1 == Append(acc.calls, Call("write_csv", wr.result = "returned"))
      t1 == st.now + wr.waited
  IN IF wr.result = "raised"
     THEN handled(table, [st EXCEPT !.now = t1], calls1, rows, acc.db_updates, TRUE)
     ELSE LET csv_result == (wr.result = "returned")
              st1 == IF csv_result THEN [st EXCEPT !.csv = acc.df] ELSE st
              up == update_sensor_data(st.dbm, st.db, acc.db_updates, t1, inp)
              calls2 == Append(calls1, Call("update_sensor_data", up.ret))
              t2 == t1 + up.waited
          IN Outcome([st1 EXCEPT !.db = up.tbl, !.dbm = up.dbm, !.now = t2,
                                 !.stats = record_result(@, table, csv_result, up.ret, t2)],
                     Info(table, calls2, rows, acc.db_updates, TRUE, FALSE, TRUE), up.conn)

\* inp: [read, rows, draws, hour, transport, write, probe, outcomes, failAt, error]
simulate_data_changes(table, st, inp) ==
  LET rd == read_csv(inp.read)
      types == COLUMN_TYPES[table]
      n == Len(st.csv)
      st0 == [st EXCEPT !.now = @ + rd.waited]
  IN IF rd.result # "returned"
     THEN handled(table, st0, <<Call("read_csv", FALSE)>>, <<>>, <<>>, FALSE)
     ELSE IF n = 0   \* random.sample(range(0), 1) raises ValueError
     THEN handled(table, st0, <<Call("read_csv", TRUE)>>, <<>>, <<>>, FALSE)
     ELSE LET env == [street |-> table = "street_lights", hour |-> inp.hour,
                      draws |-> inp.draws, mqtt |-> st.mqtt, transport |-> inp.transport,
                      now |-> st0.now]
              acc == mutate_rows([df |-> st.csv, db_updates |-> <<>>,
                                  calls |-> <<Call("read_csv", TRUE)>>, raised |-> FALSE],
                                 inp.rows, 1, types, env)
          IN IF acc.raised
             THEN handled(table, st0, acc.calls, inp.rows, acc.db_updates, acc.df # st.csv)
             ELSE IF acc.df # st.csv /\ acc.db_updates # <<>>
             THEN persist(table, st0, acc, inp.rows, inp)
             ELSE Outcome(st0, Info(table, acc.calls, inp.rows, acc.db_updates,
                                    FALSE, FALSE, FALSE), NoConn)


\* ------------------------------------------------------------------- state
VARIABLES
  pc,                   \* where main() is: "start", "loop", "decide", "cycle", "wait",
                        \* "on_demand", "stopped", "crashed"
  running,              \* the global running flag
  now,                  \* time.time()
  csv,                  \* the tabular store: table -> sequence of rows
  db,                   \* the relational store: table -> id -> row
  dbm,                  \* the DatabaseManager
  stats,                \* DataSimulator.stats
  mqtt_client,          \* DataSimulator.mqtt_client: "None" or "client"
  is_street_light_data, \* DataSimulator.is_street_light_data
  files_to_update,      \* the tables of the running cycle not processed yet
  chosen,               \* the tables the running (or last) cycle chose
  cycles,               \* simulation cycles started (SpecMain: iterations of the main loop)
  last,                 \* Info of the last simulate_data_changes call
  diverged,             \* <<table, id>> differing between the stores when the last cycle ended
  prev_diverged,        \* the same when the cycle before it ended
  last_connect,         \* Conn of the last call that ran the retry loop of connect()
  faults,               \* disturbances so far
  io,                   \* the read_csv or write_csv call in flight, step by step
  fl,                   \* a generate_fluctuation call: its arguments and its result
  th,                   \* the threads calling the DatabaseManager, statement by statement
  last_activity_time,   \* the global last_activity_time
  is_sleeping,          \* the global is_sleeping
  signal_file,          \* activity_check_file: absent, or its content (SignalFile)
  simulator_instance,   \* the global simulator_instance: "None" or "simulator"
  tick,                 \* what the last scheduler operation did
  seconds,              \* 1-second steps left in main()'s wait between cycles
  stop_event            \* the health thread's stop event

\* the variables of the scheduler, of the call in flight and of the fluctuation
ext == <<io, fl, th, last_activity_time, is_sleeping, signal_file, simulator_instance, tick,
         seconds, stop_event>>

vars == <<pc, running, now, csv, db, dbm, stats, mqtt_client, is_street_light_data,
          files_to_update, chosen, cycles, last, diverged, prev_diverged, last_connect,
          faults, ext>>

\* the tabular store's files at process start
InitialCsv ==
  [ public_transport_trackers |->
      << [id |-> "b1", location |-> "Depot", bus_id |-> "B7", occupancy |-> 1,
          timestamp |-> 0] >>,
    parking_sensors |->
      << [id |-> "p1", location |-> "Lot A", latitude |-> 1297, longitude |-> 7759,
          is_occupied |-> FALSE],
         [id |-> "p2", location |-> "Lot B", latitude |-> 1298, longitude |-> 7760,
          is_occupied |-> TRUE] >>,
    noise_sensors |-> << >> ]

\* a tabular store of one file whose calls select one or two rows
BatchCsv ==
  [ parking_sensors |->
      << [id |-> "p1", location |-> "Lot A", latitude |-> 1297, longitude |-> 7759,
          is_occupied |-> FALSE],
         [id |-> "p2", location |-> "Lot B", latitude |-> 1298, longitude |-> 7760,
          is_occupied |-> TRUE],
         [id |-> "p3", location |-> "Lot C", latitude |-> 1299, longitude |-> 7761,
          is_occupied |-> FALSE] >> ]

\* load_data: every row of a file becomes the row of its id in the table
load_table(rows) ==
  [id \in {rows[i]["id"] : i \in DOMAIN rows} |->
     LET row == CHOOSE r \in {rows[i] : i \in DOMAIN rows} : r["id"] = id
     IN [c \in (DOMAIN row \ {"id"}) \cup {"timestamp"} |->
           IF c \in DOMAIN row THEN row[c] ELSE 0]]

\* the payload columns of a row: all but identity, place and time
PayloadColumns(row) == DOMAIN row \ {"id", "location", "latitude", "longitude", "timestamp"}

\* the row of the file and the row of its id in the table hold the same payload
SamePayload(row, tbl) ==
  /\ row["id"] \in DOMAIN tbl
  /\ \A c \in PayloadColumns(row) : row[c] = tbl[row["id"]][c]

\* the rows whose payload differs between the two stores
Divergent(files, tables) ==
  UNION {{<<t, files[t][i]["id"]>> : i \in {j \in DOMAIN files[t] :
                                              ~SamePayload(files[t][j], tables[t])}} :
         t \in DOMAIN files}

\* the tables of the cycle already processed
Done == SubSeq(chosen, 1, Len(chosen) - Len(files_to_update))

\* ------------------------------------------------------------------ inputs
Hours == {5, 6, 17, 18}
Deltas == {-3, 2}
Pcts == {-7, 0, 7}
Ok == FailThenOk(0)
IoOutcomes == {Ok, FailThenOk(MAX_RETRIES - 1), FailThenOk(MAX_RETRIES)}
ErrorTexts == {"connection", "timeout", "other"}

HasType(table, type) ==
  \E c \in DOMAIN COLUMN_TYPES[table] :
     /\ COLUMN_TYPES[table][c] = type
     /\ c \notin PROTECTED_COLUMNS
     /\ ~(c = "status" /\ table = "street_lights")

\* the draws that make a difference to a row of the table
DrawsFor(table) ==
  {Draw(f, d, p) : f \in IF HasType(table, "bool") THEN BOOLEAN ELSE {FALSE},
                   d \in IF HasType(table, "int") THEN Deltas ELSE {0},
                   p \in IF HasType(table, "float") THEN Pcts ELSE {0}}

DefaultInput ==
  [read |-> Ok, rows |-> <<>>, draws |-> <<>>, hour |-> 12, transport |-> "ok",
   write |-> Ok, probe |-> "ok", outcomes |-> Ok, failAt |-> 0, error |-> "other"]

\* the row selections, draws, hours and transport behaviours of one call;
\* b is the number of failing calls the behaviour may still see
MutationInputs(table, n, client, b) ==
  UNION {UNION {{[DefaultInput EXCEPT !.rows = r, !.draws = d, !.hour = h, !.transport = p] :
                   d \in [1..k -> DrawsFor(table)],
                   h \in IF table = "street_lights" THEN Hours ELSE {12},
                   p \in IF client = "None" \/ b < 1 THEN {"ok"} ELSE {"ok", "rc", "raise"}} :
                r \in Sample(n, k)} :
         k \in NumToUpdate(n)}

\* the probe and connect outcomes that make a difference to ensure_connected
ConnInputs(m, d, b) ==
  UNION {{[m EXCEPT !.probe = p, !.outcomes = o] :
            o \in IF (p = "ok" /\ d.connection_healthy /\ d.engine # "None")
                     \/ b < (IF p = "ok" THEN 1 ELSE 2)
                  THEN {Ok} ELSE IoOutcomes} :
         p \in IF d.connection_healthy /\ d.engine # "None" /\ b >= 1
               THEN {"ok", "error"} ELSE {"ok"}}

\* the failures of the session that make a difference to update_sensor_data
SessionInputs(m, d, t, nrec, b) ==
  IF b >= 1 /\ ensure_connected(d, t, m.probe, m.outcomes).ret
  THEN {m} \cup {[m EXCEPT !.failAt = k, !.error = e] : k \in 1..(nrec + 1), e \in ErrorTexts}
  ELSE {m}

Faulty(cond) == IF cond THEN 1 ELSE 0

\* the failing calls an input holds
InputCost(m) ==
  Faulty(m.read # Ok) + Faulty(m.transport # "ok") + Faulty(m.write # Ok)
  + Faulty(m.probe # "ok") + Faulty(m.outcomes # Ok) + Faulty(m.failAt # 0)

\* the selection and draws of m change the table
Changes(table, st, m) ==
  \E i \in DOMAIN m.rows :
     stamp(fluctuate_row(st.csv[m.rows[i]], COLUMN_TYPES[table], table = "street_lights",
                         m.hour, m.draws[i]), st.now) # st.csv[m.rows[i]]

\* every input of one simulate_data_changes call on the table
CallInputs(table, st, b) ==
  (IF b >= 1 THEN {[DefaultInput EXCEPT !.read = FailThenOk(MAX_RETRIES)]} ELSE {})
  \cup
  UNION {IF ~Changes(table, st, m) THEN {m}
         ELSE (IF b - InputCost(m) >= 1
               THEN {[m EXCEPT !.write = FailThenOk(MAX_RETRIES)]} ELSE {})
              \cup UNION {SessionInputs(c, st.dbm, st.now, Len(m.rows), b - InputCost(c)) :
                          c \in ConnInputs(m, st.dbm, b - InputCost(m))} :
         m \in IF Len(st.csv) = 0 THEN {DefaultInput}
               ELSE MutationInputs(table, Len(st.csv), st.mqtt, b)}

\* -------------------------------------------------------------------- Init
\* the process starts on a tabular store whose files load_data has loaded
InitOn(files) ==
  /\ pc = "start"
  /\ running = TRUE
  /\ now = 100
  /\ csv = files
  /\ db = [t \in DOMAIN files |-> load_table(files[t])]
  /\ dbm = NewDatabaseManager
  /\ stats = NewStats
  /\ mqtt_client = "None"
  /\ is_street_light_data = FALSE
  /\ files_to_update = <<>>
  /\ chosen = <<>>
  /\ cycles = 0
  /\ last = Info("", <<>>, <<>>, <<>>, FALSE, FALSE, FALSE)
  /\ diverged = {}
  /\ prev_diverged = {}
  /\ last_connect = NoConn
  /\ faults = 0

\* the module's globals as the import leaves them (lines 575-579), no call of
\* CSVManager or generate_fluctuation in flight, main() not yet waiting
IoIdle ==
  [op |-> "none", outcomes |-> <<>>, pc |-> "idle", retry_count |-> 0,
   file_locks |-> [x \in {} |-> FALSE], attempts |-> 0, slept |-> <<>>]
FlIdle == [table |-> "none", column |-> "none", value |-> 0, hour |-> 0, d |-> NoDraw,
           result |-> 0, done |-> FALSE]
\* a thread of the process and the call of the DatabaseManager it is in: the
\* locals retry_count and current_time of connect(), the connect-and-probe
\* attempts of the call and what each of them meets (outcomes), whether a probe of the call returned 1, whether the
\* call entered the retry loop, whether it began on a store that a failed
\* update had marked unhealthy, the value returned, the end of its sleep, and
\* the calls the thread has made
Thread(at, op) ==
  [pc |-> at, op |-> op, retry_count |-> 0, attempts |-> 0, current_time |-> 0,
   probed |-> FALSE, looped |-> FALSE, forced |-> FALSE, ret |-> "none", wake |-> 0,
   calls |-> 0, outcomes |-> <<>>]

\* no thread is followed: last_loop is the time at which the last retry loop
\* began (-1: none yet), too_close whether a retry loop began less than the
\* cooldown after the one before it, marked whether a failed update has marked the store unhealthy since the last
\* ensure_connected() began, deadline the end of join(timeout=5), closed
\* whether close() has run and busy_at_close whether the health thread was
\* inside a call then
ThIdle ==
  [main |-> Thread("none", "none"), health |-> Thread("none", "none"),
   last_loop |-> -1, too_close |-> FALSE,
   marked |-> FALSE, deadline |-> 0, closed |-> FALSE, busy_at_close |-> FALSE]

NoTick == [op |-> "none", ret |-> "none", raised |-> FALSE,
           read |-> [kind |-> "none", time |-> 0], was_sleeping |-> FALSE]

\* activity_check_file: kind is "absent", "empty" (nothing but white space),
\* "text" (content float() rejects) or "time" (a number, held in time)
SignalFile(kind, time) == [kind |-> kind, time |-> time]

\* record_activity, lines 614-628.  written is FALSE when writing the file raises
record_activity(file, t, written) ==
  [last_activity_time |-> t, is_sleeping |-> FALSE,
   signal_file |-> IF written THEN SignalFile("time", t) ELSE file]

ExtInit ==
  /\ io = IoIdle
  /\ fl = FlIdle
  /\ th = ThIdle
  /\ last_activity_time = 100
  /\ is_sleeping = FALSE
  /\ signal_file = SignalFile("absent", 0)
  /\ simulator_instance = "None"
  /\ tick = NoTick
  /\ seconds = 0
  /\ stop_event = FALSE

Init == InitOn(InitialCsv) /\ ExtInit
InitBatch == InitOn(BatchCsv) /\ ExtInit

\* ----------------------------------------------------------------- actions
\* main(), lines 672-694: setup_mqtt_client(), DatabaseManager(DATABASE_URL),
\* DataSimulator(...), record_activity(); an error raised to main() ends the process
Startup ==
  /\ pc = "start"
  /\ \E client \in {"None", "client"}, o \in IoOutcomes :
       LET c == connect(NewDatabaseManager, now, o)
       IN /\ faults + Faulty(o # Ok) <= MaxFaults
          /\ faults' = faults + Faulty(o # Ok)
          /\ mqtt_client' = client
          /\ dbm' = c.dbm
          /\ now' = now + c.waited
          /\ last_connect' = Seen(last_connect, Conn(c, o))
          /\ pc' = IF c.raised THEN "crashed" ELSE "loop"
          /\ IF c.raised
             THEN UNCHANGED <<simulator_instance, last_activity_time, is_sleeping, signal_file>>
             ELSE LET ra == record_activity(signal_file, now + c.waited, TRUE)
                  IN /\ simulator_instance' = "simulator"
                     /\ last_activity_time' = ra.last_activity_time
                     /\ is_sleeping' = ra.is_sleeping
                     /\ signal_file' = ra.signal_file
  /\ stats' = NewStats
  /\ UNCHANGED <<running, csv, db, is_street_light_data, files_to_update, chosen, cycles,
                 last, diverged, prev_diverged>>
  /\ UNCHANGED <<io, fl, th, tick, seconds, stop_event>>

\* random.sample(csv_files, k): k distinct tables in any order
SampleFiles(files, k) == {s \in [1..k -> files] : \A i, j \in 1..k : i # j => s[i] # s[j]}

\* run_simulation_cycle, lines 512-520: the tables of the cycle are chosen
ChooseFiles ==
  /\ pc = "loop" /\ running
  /\ \E k \in NumToUpdate(Cardinality(DOMAIN csv)) :
       \E f \in SampleFiles(DOMAIN csv, k) :
          /\ files_to_update' = f
          /\ chosen' = f
  /\ cycles' = cycles + 1
  /\ pc' = "cycle"
  /\ UNCHANGED <<running, now, csv, db, dbm, stats, mqtt_client, is_street_light_data,
                 last, diverged, prev_diverged, last_connect, faults>>
  /\ UNCHANGED ext

\* main(), lines 695-698: the loop runs a cycle, within the bound on cycles
StartCycle ==
  /\ cycles < MaxCycles
  /\ ChooseFiles

StartCycleAgain ==
  /\ cycles < MaxCycles + 1
  /\ ChooseFiles

\* a cycle that gives up its remaining tables when a call ended in its handler
remaining_abort(files, info) == IF info.raised THEN <<>> ELSE Tail(files)

\* the tables left to the cycle after one call of simulate_data_changes
remaining(files, info) == Tail(files)

\* run_simulation_cycle, lines 521-524: one table is processed
SimulateDataChanges ==
  /\ pc \in {"cycle", "on_demand"} /\ files_to_update # <<>> /\ running
  /\ LET table == Head(files_to_update)
         st == [csv |-> csv[table], db |-> db[table], dbm |-> dbm, stats |-> stats,
                mqtt |-> mqtt_client, now |-> now]
     IN \E inp \in CallInputs(table, st, MaxFaults - faults) :
          LET out == simulate_data_changes(table, st, inp)
          IN /\ faults' = faults + InputCost(inp)
             /\ now' = out.now
             /\ is_street_light_data' = (table = "street_lights")
             /\ csv' = [csv EXCEPT ![table] = out.csv]
             /\ db' = [db EXCEPT ![table] = out.db]
             /\ dbm' = out.dbm
             /\ stats' = out.stats
             /\ last' = out.info
             /\ last_connect' = Seen(last_connect, out.conn)
             /\ files_to_update' = remaining(files_to_update, out.info)
  /\ UNCHANGED <<pc, running, mqtt_client, chosen, cycles, diverged, prev_diverged>>
  /\ UNCHANGED ext

\* run_simulation_cycle, lines 521-525: the loop ends, or breaks on the flag;
\* main(), lines 706-711: the wait before the next cycle, left early on the flag
EndCycle ==
  /\ pc = "cycle" /\ (files_to_update = <<>> \/ ~running)
  /\ diverged' = Divergent(csv, db)
  /\ prev_diverged' = diverged
  /\ now' = IF running THEN now + CycleWaitSeconds ELSE now
  /\ pc' = "loop"
  /\ UNCHANGED <<running, csv, db, dbm, stats, mqtt_client, is_street_light_data,
                 files_to_update, chosen, cycles, last, last_connect, faults>>
  /\ UNCHANGED ext

\* health_check, lines 544-572: the health thread, started by main() once the
\* simulator is built, checks the connection with ensure_connected()
HealthCheck ==
  /\ pc \in {"loop", "decide", "cycle", "wait", "on_demand"}
  /\ ~is_sleeping
  /\ \E m \in ConnInputs(DefaultInput, dbm, MaxFaults - faults) :
       LET ec == ensure_connected(dbm, now, m.probe, m.outcomes)
       IN /\ faults' = faults + InputCost(m)
          /\ dbm' = ec.dbm
          /\ now' = now + ec.waited
          /\ last_connect' = Seen(last_connect, Conn(ec, m.outcomes))
  /\ UNCHANGED <<pc, running, csv, db, stats, mqtt_client, is_street_light_data,
                 files_to_update, chosen, cycles, last, diverged, prev_diverged>>
  /\ UNCHANGED ext

\* main(), lines 712-716: the loop has seen the flag down; the stop event is
\* set and close() disposes the engine
Shutdown ==
  /\ pc = "loop" /\ ~running
  /\ dbm' = [dbm EXCEPT !.engine = IF @ = "None" THEN "None" ELSE "disposed"]
  /\ pc' = "stopped"
  /\ stop_event' = TRUE
  /\ UNCHANGED <<running, now, csv, db, stats, mqtt_client, is_street_light_data,
                 files_to_update, chosen, cycles, last, diverged, prev_diverged,
                 last_connect, faults>>
  /\ UNCHANGED <<io, fl, th, last_activity_time, is_sleeping, signal_file, simulator_instance,
                 tick, seconds>>

signal_handler ==
  /\ pc \in {"loop", "decide", "cycle", "wait", "on_demand"} /\ running /\ faults < MaxFaults
  /\ running' = FALSE
  /\ faults' = faults + 1
  /\ UNCHANGED <<pc, now, csv, db, dbm, stats, mqtt_client, is_street_light_data,
                 files_to_update, chosen, cycles, last, diverged, prev_diverged,
                 last_connect>>
  /\ UNCHANGED ext

Next ==
  \/ Startup
  \/ StartCycle
  \/ SimulateDataChanges
  \/ EndCycle
  \/ HealthCheck
  \/ Shutdown
  \/ signal_handler

\* the same process followed for one more cycle
NextTwoCycles ==
  \/ Startup
  \/ StartCycleAgain
  \/ SimulateDataChanges
  \/ EndCycle
  \/ HealthCheck
  \/ Shutdown
  \/ signal_handler

Spec == Init /\ [][Next]_vars
SpecBatch == InitBatch /\ [][Next]_vars
SpecTwoCycles == Init /\ [][NextTwoCycles]_vars

\* ------------------------------------- a CSVManager call, statement by statement
\* every variable but io
core == <<pc, running, now, csv, db, dbm, stats, mqtt_client, is_street_light_data,
          files_to_update, chosen, cycles, last, diverged, prev_diverged, last_connect,
          faults>>
not_io == <<core, fl, th, last_activity_time, is_sleeping, signal_file, simulator_instance,
            tick, seconds, stop_event>>

\* the outcomes of the MAX_RETRIES attempts a call may make
AttemptOutcomes == [1..MAX_RETRIES -> {"ok", "error"}]

\* the one file the call is about
csv_path == "parking_sensors.csv"

\* a backoff that grows by RETRY_DELAY_BASE seconds a retry
wait_time_linear(retry_count) == RETRY_DELAY_BASE * retry_count

\* wait_time = RETRY_DELAY_BASE ** retry_count
wait_time(retry_count) == RETRY_DELAY_BASE ^ retry_count

\* a caller enters read_csv or write_csv on a manager that has served no call
InitCsvCall ==
  /\ InitOn(InitialCsv)
  /\ ExtInit

\* read_csv / write_csv: retry_count = 0
CsvCall ==
  /\ io.pc = "idle"
  /\ \E op \in {"read_csv", "write_csv"}, o \in AttemptOutcomes :
       io' = [io EXCEPT !.op = op, !.outcomes = o, !.pc = "loop", !.retry_count = 0,
                        !.attempts = 0, !.slept = <<>>]
  /\ UNCHANGED not_io

\* while retry_count < MAX_RETRIES: try: self.file_locks[csv_path] = True
CsvLock ==
  /\ io.pc = "loop" /\ io.retry_count < MAX_RETRIES
  /\ io' = [io EXCEPT !.file_locks = [x \in DOMAIN @ \cup {csv_path} |->
                                        IF x = csv_path THEN TRUE ELSE @[x]],
                      !.attempts = @ + 1,
                      !.pc = "try"]
  /\ UNCHANGED not_io

\* pd.read_csv / df.to_csv: the attempt returns, or fails into the except block,
\* which counts it and either sleeps wait_time seconds or re-raises
CsvAttempt ==
  /\ io.pc = "try"
  /\ IF io.outcomes[io.attempts] = "ok"
     THEN io' = [io EXCEPT !.pc = "return"]
     ELSE LET rc == io.retry_count + 1
          IN io' = [io EXCEPT !.retry_count = rc,
                              !.slept = IF rc < MAX_RETRIES
                                        THEN Append(@, wait_time(rc)) ELSE @,
                              !.pc = IF rc < MAX_RETRIES THEN "slept" ELSE "raise"]
  /\ UNCHANGED not_io

\* finally: self.file_locks[csv_path] = False, on the way out of the try
\* statement: to the caller with the value, to the caller with the error, or
\* to the next turn of the loop
CsvFinally ==
  /\ io.pc \in {"return", "raise", "slept"}
  /\ io' = [io EXCEPT !.file_locks = [@ EXCEPT ![csv_path] = FALSE],
                      !.pc = CASE io.pc = "return" -> "returned"
                               [] io.pc = "raise" -> "raised"
                               [] OTHER -> "loop"]
  /\ UNCHANGED not_io

NextCsvCall ==
  \/ CsvCall
  \/ CsvLock
  \/ CsvAttempt
  \/ CsvFinally

SpecCsvCall == InitCsvCall /\ [][NextCsvCall]_vars

\* ------------------------------------------- one call of generate_fluctuation
\* previous values of a column, by declared type; floats in hundredths
FloatValues == {-500, 0, 50, 1350, 1400, 9900, 10000, 12000}
IntValues == {-2, 0, 1}

ValuesOf(type) ==
  IF type = "bool" THEN BOOLEAN
  ELSE IF type = "int" THEN IntValues
  ELSE IF type = "float" THEN FloatValues
  ELSE {"B7"}

\* datetime.now().hour
AllHours == 0..23

\* the calls simulate_data_changes makes: a column of COLUMN_TYPES of the
\* table, its declared type, is_street_light_data as line 451 sets it
FluctuationInput(input) ==
  \E t \in DOMAIN COLUMN_TYPES :
     \E c \in DOMAIN COLUMN_TYPES[t] :
        \E v \in ValuesOf(COLUMN_TYPES[t][c]),
           h \in IF t = "street_lights" /\ c = "status" THEN AllHours ELSE {12},
           f \in IF COLUMN_TYPES[t][c] = "bool" THEN BOOLEAN ELSE {FALSE},
           dl \in IF COLUMN_TYPES[t][c] = "int" THEN {-3, 3} ELSE {0},
           p \in IF COLUMN_TYPES[t][c] = "float" THEN Pcts ELSE {0} :
             input = [table |-> t, column |-> c, value |-> v, hour |-> h,
                      d |-> Draw(f, dl, p), result |-> v, done |-> FALSE]

InitFluctuation ==
  /\ InitOn(InitialCsv)
  /\ io = IoIdle
  /\ FluctuationInput(fl)
  /\ th = ThIdle
  /\ last_activity_time = 100
  /\ is_sleeping = FALSE
  /\ signal_file = SignalFile("absent", 0)
  /\ simulator_instance = "None"
  /\ tick = NoTick
  /\ seconds = 0
  /\ stop_event = FALSE

\* the call returns
Fluctuate ==
  /\ ~fl.done
  /\ fl' = [fl EXCEPT !.done = TRUE,
                      !.result = generate_fluctuation(fl.value, COLUMN_TYPES[fl.table][fl.column],
                                                      fl.column, fl.table = "street_lights",
                                                      fl.hour, fl.d)]
  /\ UNCHANGED <<core, io, th, last_activity_time, is_sleeping, signal_file, simulator_instance,
                 tick, seconds, stop_event>>

SpecFluctuation == InitFluctuation /\ [][Fluctuate]_vars

\* ------------------------------------------------------- ActivityScheduler
\* seconds a behaviour of the scheduler may let pass
MaxElapsed == 902

\* 15 * 60
SleepAfterSeconds == 900

\* a scheduler that also takes a signal as old as the last activity for a new one
check_for_activity_signal_not_older(lat, sleeping, file, t, readable) ==
  IF readable /\ file.kind = "time" /\ file.time >= lat
  THEN [ret |-> "True", last_activity_time |-> file.time, is_sleeping |-> FALSE,
        raised |-> FALSE]
  ELSE [ret |-> "False", last_activity_time |-> lat,
        is_sleeping |-> IF ~sleeping /\ (t - lat) > SleepAfterSeconds THEN TRUE ELSE sleeping,
        raised |-> FALSE]

\* a scheduler that falls asleep as soon as the idle time reaches the threshold
check_for_activity_signal_sleeps_at_threshold(lat, sleeping, file, t, readable) ==
  IF readable /\ file.kind = "time" /\ file.time > lat
  THEN [ret |-> "True", last_activity_time |-> file.time, is_sleeping |-> FALSE,
        raised |-> FALSE]
  ELSE [ret |-> "False", last_activity_time |-> lat,
        is_sleeping |-> IF ~sleeping /\ (t - lat) >= SleepAfterSeconds THEN TRUE ELSE sleeping,
        raised |-> FALSE]

\* a scheduler whose float() error leaves the function
check_for_activity_signal_value_error(lat, sleeping, file, t, readable) ==
  IF readable /\ file.kind = "time" /\ file.time > lat
  THEN [ret |-> "True", last_activity_time |-> file.time, is_sleeping |-> FALSE,
        raised |-> FALSE]
  ELSE [ret |-> "False", last_activity_time |-> lat,
        is_sleeping |-> IF ~sleeping /\ (t - lat) > SleepAfterSeconds THEN TRUE ELSE sleeping,
        raised |-> readable /\ file.kind = "text"]

\* check_for_activity_signal, lines 581-612.  readable is FALSE when opening
\* or reading the file raises; the result is the value returned, the two
\* globals after the call and whether an error left the function
check_for_activity_signal(lat, sleeping, file, t, readable) ==
  IF readable /\ file.kind = "time" /\ file.time > lat
  THEN [ret |-> "True", last_activity_time |-> file.time, is_sleeping |-> FALSE,
        raised |-> FALSE]
  ELSE [ret |-> "False", last_activity_time |-> lat,
        is_sleeping |-> IF ~sleeping /\ (t - lat) > SleepAfterSeconds THEN TRUE ELSE sleeping,
        raised |-> FALSE]

\* what a scheduler operation did: the value returned ("True", "False", "None"), whether an error left
\* it, what it read from the signal file and whether it found the scheduler asleep
Unreadable == [kind |-> "unreadable", time |-> 0]

Tick(op, ret, raised, read, was_sleeping) ==
  [op |-> op, ret |-> ret, raised |-> raised, read |-> read, was_sleeping |-> was_sleeping]

\* every variable the scheduler's operations leave alone
not_sched == <<core, io, fl, th, simulator_instance, seconds, stop_event>>

\* the call check_for_activity_signal() at the time t; reads tells whether
\* opening and reading the file may succeed, fail or both
CheckForActivitySignal(t, reads) ==
  \E readable \in reads :
     LET r == check_for_activity_signal(last_activity_time, is_sleeping, signal_file,
                                        t, readable \/ signal_file.kind = "absent")
     IN /\ last_activity_time' = r.last_activity_time
        /\ is_sleeping' = r.is_sleeping
        /\ tick' = Tick("check_for_activity_signal", r.ret, r.raised,
                        IF readable \/ signal_file.kind = "absent"
                        THEN signal_file ELSE Unreadable, is_sleeping)

\* a tick: check_for_activity_signal is called
SchedTick ==
  /\ CheckForActivitySignal(now, BOOLEAN)
  /\ UNCHANGED <<signal_file, not_sched>>

\* simulator_api.trigger_simulator_activity: the API process writes str(time.time())
Trigger ==
  /\ signal_file # SignalFile("time", now)
  /\ signal_file' = SignalFile("time", now)
  /\ UNCHANGED <<last_activity_time, is_sleeping, tick, not_sched>>

\* the file is removed, or a reader meets it truncated or holding other text
FileDamaged ==
  /\ \E k \in {"absent", "empty", "text"} :
       /\ signal_file.kind # k
       /\ signal_file' = SignalFile(k, 0)
  /\ UNCHANGED <<last_activity_time, is_sleeping, tick, not_sched>>

\* time passes
ElapseSteps == {450, 451}

Elapse ==
  /\ \E d \in ElapseSteps :
       /\ now + d <= 100 + MaxElapsed
       /\ now' = now + d
  /\ UNCHANGED <<pc, running, csv, db, dbm, stats, mqtt_client, is_street_light_data,
                 files_to_update, chosen, cycles, last, diverged, prev_diverged,
                 last_connect, faults, ext>>

NextSched ==
  \/ SchedTick
  \/ Trigger
  \/ FileDamaged
  \/ Elapse

SpecSched == Init /\ [][NextSched]_vars

\* ------------------------------------------------- main() with its scheduler
\* the tabular store of the process followed through its sleep mode
MainCsv ==
  [ parking_sensors |->
      << [id |-> "p1", location |-> "Lot A", latitude |-> 1297, longitude |-> 7759,
          is_occupied |-> FALSE] >> ]

InitMain == InitOn(MainCsv) /\ ExtInit

\* an on-demand entry that leaves a sleeping scheduler asleep
run_single_simulation_cycle_asleep(instance, lat, sleeping, file, t, written) ==
  IF instance = "None"
  THEN [cycle |-> FALSE, ret |-> "False", last_activity_time |-> lat,
        is_sleeping |-> sleeping, signal_file |-> file]
  ELSE [cycle |-> ~sleeping, ret |-> "None", last_activity_time |-> lat,
        is_sleeping |-> sleeping, signal_file |-> file]

\* run_single_simulation_cycle, lines 630-640: cycle tells whether
\* run_simulation_cycle() is called, whose value (None) is the value returned
run_single_simulation_cycle(instance, lat, sleeping, file, t, written) ==
  IF instance = "None"
  THEN [cycle |-> FALSE, ret |-> "False", last_activity_time |-> lat,
        is_sleeping |-> sleeping, signal_file |-> file]
  ELSE LET ra == record_activity(file, t, written)
       IN [cycle |-> TRUE, ret |-> "None", last_activity_time |-> ra.last_activity_time,
           is_sleeping |-> ra.is_sleeping, signal_file |-> ra.signal_file]

NoRead == [kind |-> "none", time |-> 0]

\* a main loop that runs its cycle in every iteration
runs_cycle_always(sleeping, activity_detected) == TRUE

\* main(), line 697: if not is_sleeping or activity_detected
runs_cycle(sleeping, activity_detected) == ~sleeping \/ activity_detected

\* main(), lines 695-696: the loop condition holds and the iteration begins
\* with check_for_activity_signal(); cycles counts the iterations here
MainCheck ==
  /\ pc = "loop" /\ running
  /\ cycles < MaxCycles + 1
  /\ CheckForActivitySignal(now, {TRUE})
  /\ cycles' = cycles + 1
  /\ pc' = "decide"
  /\ UNCHANGED <<running, now, csv, db, dbm, stats, mqtt_client, is_street_light_data,
                 files_to_update, chosen, last, diverged, prev_diverged, last_connect,
                 faults>>
  /\ UNCHANGED <<io, fl, th, signal_file, simulator_instance, seconds, stop_event>>

\* main(), lines 697-698, and run_simulation_cycle, lines 512-520
MainCycle ==
  /\ pc = "decide"
  /\ runs_cycle(is_sleeping, tick.ret = "True")
  /\ \E k \in NumToUpdate(Cardinality(DOMAIN csv)) :
       \E f \in SampleFiles(DOMAIN csv, k) :
          /\ files_to_update' = f
          /\ chosen' = f
  /\ pc' = "cycle"
  /\ UNCHANGED <<running, now, csv, db, dbm, stats, mqtt_client, is_street_light_data,
                 cycles, last, diverged, prev_diverged, last_connect, faults>>
  /\ UNCHANGED ext

\* main(), lines 701-705: asleep and no activity detected; one time in twenty
\* the connection is checked
MainSkip ==
  /\ pc = "decide"
  /\ ~runs_cycle(is_sleeping, tick.ret = "True")
  /\ \E check \in BOOLEAN :
       IF check
       THEN \E m \in ConnInputs(DefaultInput, dbm, MaxFaults - faults) :
              LET ec == ensure_connected(dbm, now, m.probe, m.outcomes)
              IN /\ faults' = faults + InputCost(m)
                 /\ dbm' = ec.dbm
                 /\ now' = now + ec.waited
                 /\ last_connect' = Seen(last_connect, Conn(ec, m.outcomes))
       ELSE UNCHANGED <<faults, dbm, now, last_connect>>
  /\ pc' = "wait"
  /\ seconds' = 0
  /\ UNCHANGED <<running, csv, db, stats, mqtt_client, is_street_light_data,
                 files_to_update, chosen, cycles, last, diverged, prev_diverged>>
  /\ UNCHANGED <<io, fl, th, last_activity_time, is_sleeping, signal_file, simulator_instance,
                 tick, stop_event>>

\* run_simulation_cycle, lines 521-525: the loop over the tables ends, or
\* breaks on the flag, and main() enters its wait
CycleDone ==
  /\ pc = "cycle" /\ (files_to_update = <<>> \/ ~running)
  /\ diverged' = Divergent(csv, db)
  /\ prev_diverged' = diverged
  /\ pc' = "wait"
  /\ seconds' = 0
  /\ UNCHANGED <<running, now, csv, db, dbm, stats, mqtt_client, is_street_light_data,
                 files_to_update, chosen, cycles, last, last_connect, faults>>
  /\ UNCHANGED <<io, fl, th, last_activity_time, is_sleeping, signal_file, simulator_instance,
                 tick, stop_event>>

\* a wait that runs its thirty steps whatever the flag
leaves_wait_when_over(index, flag) == index = CycleWaitSeconds

\* main(), lines 706-708: the for loop is exhausted, or breaks on the flag
leaves_wait(index, flag) == index = CycleWaitSeconds \/ ~flag

\* time.sleep(1) returns after one second, or later when the process was held
SleepSeconds == {1, SleepAfterSeconds + 1}

\* main(), lines 706-711: one step of the wait, seconds being the loop index
WaitStep ==
  /\ pc = "wait" /\ ~leaves_wait(seconds, running)
  /\ IF seconds % 5 = 0
     THEN CheckForActivitySignal(now, {TRUE})
     ELSE UNCHANGED <<last_activity_time, is_sleeping, tick>>
  /\ \E d \in SleepSeconds :
       /\ d > 1 => now + d <= 100 + MaxElapsed
       /\ now' = now + d
  /\ seconds' = seconds + 1
  /\ UNCHANGED <<pc, running, csv, db, dbm, stats, mqtt_client, is_street_light_data,
                 files_to_update, chosen, cycles, last, diverged, prev_diverged,
                 last_connect, faults>>
  /\ UNCHANGED <<io, fl, th, signal_file, simulator_instance, stop_event>>

\* main(), lines 706-708: the wait is over, or is left on the flag
WaitOver ==
  /\ pc = "wait" /\ leaves_wait(seconds, running)
  /\ pc' = "loop"
  /\ UNCHANGED <<running, now, csv, db, dbm, stats, mqtt_client, is_street_light_data,
                 files_to_update, chosen, cycles, last, diverged, prev_diverged,
                 last_connect, faults>>
  /\ UNCHANGED ext

\* run_single_simulation_cycle() is called, before main() has built the
\* simulator or while main() waits
RunSingle ==
  /\ pc \in {"start", "wait"} /\ faults < MaxFaults
  /\ \E written \in BOOLEAN :
       LET r == run_single_simulation_cycle(simulator_instance, last_activity_time,
                                            is_sleeping, signal_file, now, written)
       IN /\ last_activity_time' = r.last_activity_time
          /\ is_sleeping' = r.is_sleeping
          /\ signal_file' = r.signal_file
          /\ tick' = Tick("run_single_simulation_cycle", r.ret, FALSE, NoRead, is_sleeping)
          /\ IF r.cycle
             THEN /\ \E k \in NumToUpdate(Cardinality(DOMAIN csv)) :
                       \E f \in SampleFiles(DOMAIN csv, k) :
                          /\ files_to_update' = f
                          /\ chosen' = f
                  /\ pc' = "on_demand"
             ELSE UNCHANGED <<files_to_update, chosen, pc>>
  /\ faults' = faults + 1
  /\ UNCHANGED <<running, now, csv, db, dbm, stats, mqtt_client, is_street_light_data,
                 cycles, last, diverged, prev_diverged, last_connect>>
  /\ UNCHANGED <<io, fl, th, simulator_instance, seconds, stop_event>>

\* the cycle run on demand returns to its caller
OnDemandDone ==
  /\ pc = "on_demand" /\ (files_to_update = <<>> \/ ~running)
  /\ diverged' = Divergent(csv, db)
  /\ prev_diverged' = diverged
  /\ pc' = "wait"
  /\ UNCHANGED <<running, now, csv, db, dbm, stats, mqtt_client, is_street_light_data,
                 files_to_update, chosen, cycles, last, last_connect, faults>>
  /\ UNCHANGED ext

\* the API process signals activity, within the budget of outside events
TriggerMain ==
  /\ pc \in {"loop", "decide", "cycle", "wait", "on_demand"} /\ faults < MaxFaults
  /\ signal_file' = SignalFile("time", now)
  /\ faults' = faults + 1
  /\ UNCHANGED <<pc, running, now, csv, db, dbm, stats, mqtt_client, is_street_light_data,
                 files_to_update, chosen, cycles, last, diverged, prev_diverged,
                 last_connect>>
  /\ UNCHANGED <<io, fl, th, last_activity_time, is_sleeping, simulator_instance, tick,
                 seconds, stop_event>>

NextMain ==
  \/ Startup
  \/ MainCheck
  \/ MainCycle
  \/ MainSkip
  \/ SimulateDataChanges
  \/ CycleDone
  \/ WaitStep
  \/ WaitOver
  \/ RunSingle
  \/ OnDemandDone
  \/ TriggerMain
  \/ HealthCheck
  \/ Shutdown
  \/ signal_handler

SpecMain == InitMain /\ [][NextMain]_vars

\* the steps of the main thread and of the caller of an on-demand cycle that
\* need no outside event: each is a terminating piece of code, so the
\* interpreter runs it once it is reached
MainThread ==
  \/ MainCycle
  \/ MainSkip
  \/ CycleDone
  \/ WaitOver
  \/ OnDemandDone
  \/ Shutdown

SpecMainFair == SpecMain /\ WF_vars(MainThread)

\* --------------------- the DatabaseManager under its two callers, by statement
\* calls of ensure_connected() a thread may make in a behaviour
MaxCalls == 2

\* join(timeout=5)
JoinTimeout == 5

Threads == {"main", "health"}

\* the positions inside ensure_connected() and connect()
InCall == {"ec", "probe", "connect", "stamp", "loop", "sleep"}

\* what a connect-and-probe attempt, or the probe of ensure_connected(), does:
\* SELECT 1 returns 1, raises SQLAlchemyError, or returns something else
ProbeOutcomes == {"ok", "error", "not1"}

\* what the attempts of one execution of the retry loop meet: the first
\* succeeds, two fail and the third succeeds, all fail with SQLAlchemyError, or
\* every SELECT 1 completes without returning 1
NeverOne == [i \in 1..(MAX_RETRIES + 1) |-> "not1"]
ConnectProfiles == {FailThenOk(0), FailThenOk(2), FailThenOk(MAX_RETRIES), NeverOne}

\* every variable a step of a DatabaseManager call leaves alone
not_conn == <<pc, running, csv, db, stats, mqtt_client, is_street_light_data,
              files_to_update, chosen, cycles, last, diverged, prev_diverged, last_connect,
              faults, io, fl, last_activity_time, is_sleeping, signal_file,
              simulator_instance, tick, seconds>>

\* main() is inside DatabaseManager.__init__, at its connect() call (line 160);
\* the health thread is not started yet
InitConn ==
  /\ InitOn(MainCsv)
  /\ io = IoIdle
  /\ fl = FlIdle
  /\ th = [ThIdle EXCEPT !.main = Thread("connect", "connect"),
                         !.health = Thread("unstarted", "health_check")]
  /\ last_activity_time = 100
  /\ is_sleeping = FALSE
  /\ signal_file = SignalFile("absent", 0)
  /\ simulator_instance = "None"
  /\ tick = NoTick
  /\ seconds = 0
  /\ stop_event = FALSE

\* the call returns ret to its caller
Returned(t, ret) == [th[t] EXCEPT !.pc = "returned", !.ret = ret]

\* the caller has used the value: the thread is in no call
Idle(t) == [Thread("idle", th[t].op) EXCEPT !.calls = th[t].calls]

\* main(), line 691: the health thread is started once the simulator is built
HealthStart ==
  /\ th.health.pc = "unstarted" /\ th.main.pc = "idle"
  /\ th' = [th EXCEPT !.health.pc = "idle"]
  /\ UNCHANGED <<now, dbm, stop_event, not_conn>>

\* update_sensor_data, line 274, or health_check, line 555: ensure_connected()
\* is called
CallEnsureConnected(t) ==
  /\ th[t].pc = "idle" /\ th[t].calls < MaxCalls
  /\ t = "health" => ~stop_event
  /\ th' = [th EXCEPT ![t] = [Thread("ec", IF t = "main" THEN "update_sensor_data"
                                                       ELSE "health_check")
                               EXCEPT !.calls = th[t].calls + 1,
                                      !.forced = th.marked /\ ~dbm.connection_healthy],
                      !.marked = FALSE]
  /\ UNCHANGED <<now, dbm, stop_event, not_conn>>

\* ensure_connected, lines 215-216
EcCheck(t) ==
  /\ th[t].pc = "ec"
  /\ th' = [th EXCEPT ![t].pc = IF ~dbm.connection_healthy \/ dbm.engine = "None"
                                THEN "connect" ELSE "probe"]
  /\ UNCHANGED <<now, dbm, stop_event, not_conn>>

\* ensure_connected, lines 219-229
EcProbe(t) ==
  /\ th[t].pc = "probe"
  /\ \E o \in ProbeOutcomes :
       th' = [th EXCEPT ![t] = IF o = "ok"
                               THEN [Returned(t, "True") EXCEPT !.probed = TRUE]
                               ELSE [th[t] EXCEPT !.pc = "connect"]]
  /\ UNCHANGED <<now, dbm, stop_event, not_conn>>

\* connect, lines 167-170: the cooldown test
ConnectCooldown(t) ==
  /\ th[t].pc = "connect"
  /\ th' = [th EXCEPT ![t] =
              IF now - dbm.last_reconnect_attempt < ReconnectCooldown
              THEN Returned(t, IF dbm.connection_healthy THEN "True" ELSE "False")
              ELSE [th[t] EXCEPT !.pc = "stamp", !.current_time = now]]
  /\ UNCHANGED <<now, dbm, stop_event, not_conn>>

\* connect, line 172
ConnectStamp(t) ==
  /\ th[t].pc = "stamp"
  /\ dbm' = [dbm EXCEPT !.last_reconnect_attempt = th[t].current_time]
  /\ \E p \in ConnectProfiles :
       th' = [th EXCEPT ![t].pc = "loop", ![t].looped = TRUE, ![t].outcomes = p,
                        !.last_loop = now,
                        !.too_close = @ \/ (th.last_loop >= 0
                                            /\ now - th.last_loop < ReconnectCooldown)]
  /\ UNCHANGED <<now, stop_event, not_conn>>

\* connect, lines 174-211: one pass of the while loop, or its end
ConnectAttempt(t) ==
  /\ th[t].pc = "loop"
  /\ IF th[t].retry_count < MAX_RETRIES
     THEN /\ th[t].attempts <= MAX_RETRIES
          /\ LET o == th[t].outcomes[th[t].attempts + 1] IN
               /\ dbm' = [dbm EXCEPT !.engine = "engine",
                                     !.connection_healthy = IF o = "ok" THEN TRUE ELSE @]
               /\ th' = [th EXCEPT ![t] =
                           IF o = "ok"
                           THEN [Returned(t, "True") EXCEPT !.probed = TRUE,
                                                           !.attempts = @ + 1]
                           ELSE IF o = "error"
                           THEN [th[t] EXCEPT !.attempts = @ + 1,
                                              !.retry_count = @ + 1,
                                              !.wake = now + RETRY_DELAY_BASE ^ (th[t].retry_count + 1),
                                              !.pc = "sleep"]
                           ELSE [th[t] EXCEPT !.attempts = @ + 1]]
     ELSE /\ dbm' = [dbm EXCEPT !.connection_healthy = FALSE]
          /\ th' = [th EXCEPT ![t] = Returned(t, "False")]
  /\ UNCHANGED <<now, stop_event, not_conn>>

\* connect, line 207: time.sleep(wait_time) is over
ConnectWake(t) ==
  /\ th[t].pc = "sleep" /\ now >= th[t].wake
  /\ th' = [th EXCEPT ![t].pc = "loop"]
  /\ UNCHANGED <<now, dbm, stop_event, not_conn>>

\* update_sensor_data, lines 274-326, after ensure_connected(): return False,
\* or the session, which commits or fails with an error of some text;
\* DatabaseManager.__init__ just returns
MainReturns ==
  /\ th.main.pc = "returned"
  /\ IF th.main.op = "update_sensor_data" /\ th.main.ret = "True"
     THEN \E e \in {"none"} \cup ErrorTexts :
            /\ dbm' = IF e # "none" /\ IsConnectionError(e)
                      THEN [dbm EXCEPT !.connection_healthy = FALSE] ELSE dbm
            /\ th' = [th EXCEPT !.main = Idle("main"),
                                !.marked = IF e # "none" /\ IsConnectionError(e) THEN TRUE ELSE @]
     ELSE /\ th' = [th EXCEPT !.main = Idle("main")]
          /\ dbm' = dbm
  /\ UNCHANGED <<now, stop_event, not_conn>>

\* health_check, lines 555-567: the value is logged
HealthReturns ==
  /\ th.health.pc = "returned"
  /\ th' = [th EXCEPT !.health = Idle("health")]
  /\ UNCHANGED <<now, dbm, stop_event, not_conn>>

\* health_check, lines 546 and 565: the thread sees the stop event and ends
HealthStop ==
  /\ th.health.pc = "idle" /\ stop_event
  /\ th' = [th EXCEPT !.health.pc = "done"]
  /\ UNCHANGED <<now, dbm, stop_event, not_conn>>

\* main(), lines 713-714: the loop is left, stop_event.set(), join begins
BeginShutdown ==
  /\ th.main.pc = "idle" /\ th.health.pc # "unstarted"
  /\ stop_event' = TRUE
  /\ th' = [th EXCEPT !.main.pc = "join", !.deadline = now + JoinTimeout]
  /\ UNCHANGED <<now, dbm, not_conn>>

\* main(), lines 714-715: join returns when the thread has ended or the
\* timeout has passed; close() disposes the engine (lines 328-332)
Close ==
  /\ th.main.pc = "join"
  /\ th.health.pc = "done" \/ now >= th.deadline
  /\ dbm' = [dbm EXCEPT !.engine = IF @ = "None" THEN "None" ELSE "disposed"]
  /\ th' = [th EXCEPT !.main.pc = "closed", !.closed = TRUE,
                      !.busy_at_close = th.health.pc \in InCall]
  /\ UNCHANGED <<now, stop_event, not_conn>>

\* the times something waits for: the end of a sleep, of the cooldown, of the join
Deadlines ==
  {th[t].wake : t \in {u \in Threads : th[u].pc = "sleep"}}
    \cup {dbm.last_reconnect_attempt + ReconnectCooldown}
    \cup (IF th.main.pc = "join" THEN {th.deadline} ELSE {})

\* time passes up to the next of them while every thread is asleep, joining
\* or between two calls: the statements themselves take no time
Tock ==
  /\ \A t \in Threads : th[t].pc \notin {"ec", "probe", "connect", "stamp", "loop", "returned"}
  /\ \A e \in Deadlines \ {dbm.last_reconnect_attempt + ReconnectCooldown} : e > now
  /\ \E d \in Deadlines :
       /\ d > now
       /\ \A e \in Deadlines : e > now => d <= e
       /\ now' = d
  /\ UNCHANGED <<dbm, th, stop_event, not_conn>>

NextConn ==
  \/ HealthStart
  \/ \E t \in Threads : CallEnsureConnected(t)
  \/ \E t \in Threads : EcCheck(t)
  \/ \E t \in Threads : EcProbe(t)
  \/ \E t \in Threads : ConnectCooldown(t)
  \/ \E t \in Threads : ConnectStamp(t)
  \/ \E t \in Threads : ConnectAttempt(t)
  \/ \E t \in Threads : ConnectWake(t)
  \/ MainReturns
  \/ HealthReturns
  \/ HealthStop
  \/ BeginShutdown
  \/ Close
  \/ Tock

SpecConn == InitConn /\ [][NextConn]_vars

\* ------------------------------------------- the selections of one cycle
MaxTables == 4
MaxRows == 6

\* the files a directory may hold, in the order in which they are added to it
TableNames ==
  <<"parking_sensors", "noise_sensors", "traffic_sensors", "weather_stations",
    "smart_meters", "waste_bins">>

\* a file of m rows
RowsOfFile(m) == [i \in 1..m |-> [id |-> i]]

\* a directory of n files: the first has m rows, each next one a row more,
\* starting again at no row after MaxRows
Directory(n, m) ==
  [t \in {TableNames[i] : i \in 1..n} |->
     RowsOfFile((m + (CHOOSE i \in 1..n : TableNames[i] = t) - 1) % (MaxRows + 1))]

\* main() has built the simulator on a directory of no file to MaxTables
\* files, of no row to MaxRows rows each
InitSampling ==
  /\ \E n \in 0..MaxTables, m \in 0..MaxRows :
        /\ csv = Directory(n, m)
        /\ db = [t \in DOMAIN Directory(n, m) |-> load_table(Directory(n, m)[t])]
  /\ pc = "loop"
  /\ running = TRUE
  /\ now = 100
  /\ dbm = NewDatabaseManager
  /\ stats = NewStats
  /\ mqtt_client = "None"
  /\ is_street_light_data = FALSE
  /\ files_to_update = <<>>
  /\ chosen = <<>>
  /\ cycles = 0
  /\ last = Info("", <<>>, <<>>, <<>>, FALSE, FALSE, FALSE)
  /\ diverged = {}
  /\ prev_diverged = {}
  /\ last_connect = NoConn
  /\ faults = 0
  /\ ExtInit

\* run_simulation_cycle, lines 512-520, in the first iteration of main()'s loop
FirstCycle ==
  /\ cycles = 0
  /\ ChooseFiles

\* simulate_data_changes, lines 461-463: the rows of the next chosen table are
\* selected
SampleRows ==
  /\ pc = "cycle" /\ files_to_update # <<>> /\ running
  /\ LET table == Head(files_to_update)
         num_rows == Len(csv[table])
     IN \E num_rows_to_update \in NumToUpdate(num_rows) :
          \E rows_to_update \in Sample(num_rows, num_rows_to_update) :
             last' = Info(table, <<>>, rows_to_update, <<>>, FALSE, FALSE, FALSE)
  /\ files_to_update' = Tail(files_to_update)
  /\ UNCHANGED <<pc, running, now, csv, db, dbm, stats, mqtt_client, is_street_light_data,
                 chosen, cycles, diverged, prev_diverged, last_connect, faults>>
  /\ UNCHANGED ext

\* run_simulation_cycle, lines 519-520: random.sample raises ValueError when
\* the number drawn exceeds the number of files; nothing in
\* run_simulation_cycle catches it, and main()'s handler (lines 719-722) logs
\* it and leaves with sys.exit(1)
ChooseFilesRaises ==
  /\ pc = "loop" /\ running /\ cycles = 0
  /\ \E k \in NumToUpdate(Cardinality(DOMAIN csv)) : k > Cardinality(DOMAIN csv)
  /\ cycles' = cycles + 1
  /\ pc' = "crashed"
  /\ UNCHANGED <<running, now, csv, db, dbm, stats, mqtt_client, is_street_light_data,
                 files_to_update, chosen, last, diverged, prev_diverged, last_connect,
                 faults>>
  /\ UNCHANGED ext

\* simulate_data_changes, lines 462-463 and 505-509: random.sample raises
\* ValueError when the number drawn exceeds the number of rows; the handler
\* of simulate_data_changes counts a failed update and returns False
SampleRowsRaises ==
  /\ pc = "cycle" /\ files_to_update # <<>> /\ running
  /\ LET table == Head(files_to_update)
         num_rows == Len(csv[table])
     IN /\ \E num_rows_to_update \in NumToUpdate(num_rows) : num_rows_to_update > num_rows
        /\ last' = Info(table, <<>>, <<>>, <<>>, FALSE, TRUE, FALSE)
  /\ stats' = on_exception(stats)
  /\ files_to_update' = Tail(files_to_update)
  /\ UNCHANGED <<pc, running, now, csv, db, dbm, mqtt_client, is_street_light_data,
                 chosen, cycles, diverged, prev_diverged, last_connect, faults>>
  /\ UNCHANGED ext

NextSampling ==
  \/ FirstCycle
  \/ ChooseFilesRaises
  \/ SampleRows
  \/ SampleRowsRaises
  \/ EndCycle

SpecSampling == InitSampling /\ [][NextSampling]_vars

\* -------------------------------------------------------------- properties
\* the calls of the last simulate_data_changes, as a set
Calls(info) == {info.calls[i] : i \in DOMAIN info.calls}
Ops(info) == {info.calls[i].op : i \in DOMAIN info.calls}

\* both writes of the call reported success
BothSucceeded(info) ==
  Call("write_csv", TRUE) \in Calls(info) /\ Call("update_sensor_data", TRUE) \in Calls(info)

\* a step of SimulateDataChanges: the only step that takes a table off the
\* running cycle's list
CallStep == pc = "cycle" /\ files_to_update' # files_to_update

\* C1: after a call of simulate_data_changes in which write_csv and
\* update_sensor_data both reported success, every row the call selected holds
\* the same payload values in the tabular store and in the relational store
C1_SelectedRowsInSync ==
  BothSucceeded(last) =>
    \A i \in DOMAIN last.rows :
       SamePayload(csv[last.table][last.rows[i]], db[last.table])

\* a call changed a parking row and a later one wrote both stores
C1_Witness ==
  /\ BothSucceeded(last)
  /\ last.table = "public_transport_trackers"
  /\ csv["public_transport_trackers"][1]["occupancy"] # InitialCsv["public_transport_trackers"][1]["occupancy"]
  /\ csv["parking_sensors"] # InitialCsv["parking_sensors"]

\* C2: the stores never stay divergent for longer than one cycle: no row
\* whose payload differed between the stores when cycle n ended still differs
\* when cycle n+1 ended
C2_DivergenceHealsInOneCycle == prev_diverged \cap diverged = {}

\* C3: a call that finds the mutated table equal to the original changes no
\* statistic and calls neither update_sensor_data nor publish_to_mqtt
C3_NoNetChangeIsSilent ==
  [][(CallStep /\ ~last'.changed /\ ~last'.raised) =>
       /\ stats' = stats
       /\ Ops(last') \cap {"update_sensor_data", "publish_to_mqtt"} = {}]_vars

\* C4: a call whose mutated table differs from the original adds one to
\* exactly one of updates_successful and updates_failed: to updates_successful,
\* and to files_processed[table], exactly when both writes succeeded, and to
\* updates_failed otherwise
C4_ExactlyOneCounter ==
  [][(CallStep /\ last'.changed) =>
       LET table == last'.table
           before == IF table \in DOMAIN stats.files_processed
                     THEN stats.files_processed[table] ELSE 0
       IN IF BothSucceeded(last')
          THEN /\ stats'.updates_successful = stats.updates_successful + 1
               /\ stats'.updates_failed = stats.updates_failed
               /\ table \in DOMAIN stats'.files_processed
               /\ stats'.files_processed[table] = before + 1
          ELSE /\ stats'.updates_failed = stats.updates_failed + 1
               /\ stats'.updates_successful = stats.updates_successful
               /\ stats'.files_processed = stats.files_processed]_vars

\* one changed table was counted as failed because the relational batch
\* failed, another as successful
C4_Witness ==
  /\ last.changed
  /\ Call("write_csv", TRUE) \in Calls(last)
  /\ Call("update_sensor_data", FALSE) \in Calls(last)
  /\ stats.updates_failed = 1
  /\ stats.updates_successful = 1

\* C5: for a table with a net change both write_csv and update_sensor_data are
\* attempted, whatever the outcome of the other, and a failed relational batch
\* leaves the tabular write in place
C5_BothWritesAttempted ==
  last.changed =>
    /\ {"write_csv", "update_sensor_data"} \subseteq Ops(last)
    /\ Call("write_csv", TRUE) \in Calls(last) =>
          \A i \in DOMAIN last.rows :
             \A c \in DOMAIN last.batch[i] \ {"id"} :
                csv[last.table][last.rows[i]][c] = last.batch[i][c]

\* C6: an exception raised while a table is processed ends in the handler of
\* simulate_data_changes: updates_failed grows by one, the cycle goes on with
\* the tables after it, and a cycle that is not told to stop ends only when
\* every table it chose has been processed
C6_ExceptionDoesNotAbortCycle ==
  [][/\ (CallStep /\ last'.raised) =>
          /\ pc' = "cycle"
          /\ stats'.updates_failed = stats.updates_failed + 1
          /\ stats'.updates_successful = stats.updates_successful
          /\ files_to_update' = Tail(files_to_update)
     /\ (pc = "cycle" /\ pc' # "cycle" /\ running) => (files_to_update = <<>> /\ Done = chosen)]_vars

\* the first table of a cycle raised (an empty file) and the second was
\* processed and written to both stores
C6_Witness ==
  /\ pc = "loop" /\ running /\ cycles = 1
  /\ Len(chosen) = 2 /\ chosen[1] = "noise_sensors"
  /\ last.table = chosen[2] /\ BothSucceeded(last)
  /\ stats.updates_failed = 1 /\ stats.updates_successful = 1

\* C7: after any number of cycles every row of the tabular store, every row of
\* the relational store and every record sent to the relational store holds
\* the initial values of the protected columns
C7_ProtectedColumnsKept ==
  /\ \A t \in DOMAIN csv :
        /\ Len(csv[t]) = Len(InitialCsv[t])
        /\ \A i \in DOMAIN csv[t] :
              /\ DOMAIN csv[t][i] = DOMAIN InitialCsv[t][i]
              /\ \A c \in PROTECTED_COLUMNS \cap DOMAIN csv[t][i] :
                    csv[t][i][c] = InitialCsv[t][i][c]
              /\ \A c \in (PROTECTED_COLUMNS \ {"id"}) \cap DOMAIN csv[t][i] :
                    db[t][InitialCsv[t][i]["id"]][c] = InitialCsv[t][i][c]
  /\ Len(last.batch) <= Len(last.rows)
  /\ \A i \in DOMAIN last.batch :
        \A c \in PROTECTED_COLUMNS \cap DOMAIN last.batch[i] :
           last.batch[i][c] = InitialCsv[last.table][last.rows[i]][c]

\* a cycle has changed a parking row and then the bus tracker, whose record
\* carries bus_id, and has ended
C7_Witness ==
  /\ pc = "loop" /\ cycles >= 1
  /\ chosen = <<"parking_sensors", "public_transport_trackers">>
  /\ \E i \in DOMAIN csv["parking_sensors"] :
        csv["parking_sensors"][i]["is_occupied"] # InitialCsv["parking_sensors"][i]["is_occupied"]
  /\ last.table = "public_transport_trackers"
  /\ "bus_id" \in DOMAIN last.batch[1]
  /\ db["public_transport_trackers"]["b1"]["occupancy"] # 1

\* C8: a call in which publish_to_mqtt failed did not end in the handler
\* because of it, attempted the tabular write and (the write returning) the
\* relational batch when the table changed, and counted the table by the
\* outcome of the two writes alone
C8_PublishFailureIsHarmless ==
  [][(CallStep /\ Call("publish_to_mqtt", FALSE) \in Calls(last')) =>
       /\ last'.raised => last'.calls[Len(last'.calls)].op # "publish_to_mqtt"
       /\ last'.changed => "write_csv" \in Ops(last')
       /\ (last'.changed /\ Call("write_csv", TRUE) \in Calls(last'))
             => "update_sensor_data" \in Ops(last')
       /\ BothSucceeded(last') =>
             /\ stats'.updates_successful = stats.updates_successful + 1
             /\ stats'.updates_failed = stats.updates_failed
       /\ (~last'.changed /\ ~last'.raised) => stats' = stats]_vars

\* with a transport configured a publication failed and both writes succeeded
C8_Witness ==
  /\ mqtt_client = "client"
  /\ Call("publish_to_mqtt", FALSE) \in Calls(last)
  /\ BothSucceeded(last)
  /\ stats.updates_failed = 0

\* C9: update_sensor_data returns True only with every record of the batch
\* durable, and when it returns False the relational store is exactly what it
\* was before the call
C9_BatchIsAtomic ==
  [][(CallStep /\ "update_sensor_data" \in Ops(last')) =>
       /\ Call("update_sensor_data", FALSE) \in Calls(last') => db' = db
       /\ Call("update_sensor_data", TRUE) \in Calls(last') =>
             \A i \in DOMAIN last'.batch :
                LET record == last'.batch[i]
                    row == db'[last'.table][record["id"]]
                IN /\ \A c \in DOMAIN record \ {"id"} : row[c] = record[c]
                   /\ row["timestamp"] = now']_vars

\* a batch of two records failed on a connection that was available
C9_Witness ==
  /\ Len(last.batch) = 2
  /\ Call("update_sensor_data", FALSE) \in Calls(last)
  /\ last_connect.ret
  /\ ~dbm.connection_healthy

\* C10: a connect() whose probe failed on each of its MAX_RETRIES attempts
\* returned False, left connection_healthy False and raised nothing; at
\* process start the process goes on to its loop
C10_ExhaustedConnectReturnsFalse ==
  (last_connect.outcomes = FailThenOk(MAX_RETRIES) /\ last_connect.attempts = MAX_RETRIES) =>
     /\ ~last_connect.ret
     /\ ~last_connect.raised
     /\ ~last_connect.healthy
     /\ pc # "crashed"

\* the process started with an exhausted connect() and went on to run a cycle
C10_Witness ==
  /\ last_connect.outcomes = FailThenOk(MAX_RETRIES)
  /\ last_connect.attempts = MAX_RETRIES
  /\ pc = "cycle"
  /\ last.table # ""

\* C11: read_csv and write_csv make at most MAX_RETRIES attempts, return at
\* the first attempt that succeeds, have waited RETRY_DELAY_BASE^k seconds
\* after the k-th failed attempt that another attempt follows, raise when all
\* MAX_RETRIES attempts failed, and leave file_locks[path] False on every exit
C11_RetryBackoffAndLock ==
  /\ io.attempts <= MAX_RETRIES
  /\ \A k \in DOMAIN io.slept : io.slept[k] = RETRY_DELAY_BASE ^ k
  /\ io.pc = "returned" =>
        /\ io.outcomes[io.attempts] = "ok"
        /\ \A k \in 1..(io.attempts - 1) : io.outcomes[k] = "error"
        /\ Len(io.slept) = io.attempts - 1
        /\ io.file_locks[csv_path] = FALSE
        /\ read_csv(io.outcomes).result = "returned"
        /\ write_csv(io.outcomes).attempts = io.attempts
  /\ io.pc = "raised" =>
        /\ io.attempts = MAX_RETRIES
        /\ \A k \in 1..MAX_RETRIES : io.outcomes[k] = "error"
        /\ Len(io.slept) = MAX_RETRIES - 1
        /\ io.file_locks[csv_path] = FALSE
        /\ read_csv(io.outcomes).result = "raised"
        /\ write_csv(io.outcomes).result = "raised"
  /\ io.pc = "loop" => (io.retry_count < MAX_RETRIES /\ io.attempts = io.retry_count)

\* a write that failed twice returned at its third attempt, after 2 and 4 seconds
C11_Witness ==
  /\ io.op = "write_csv"
  /\ io.pc = "returned"
  /\ io.slept = <<RETRY_DELAY_BASE, RETRY_DELAY_BASE * RETRY_DELAY_BASE>>
  /\ io.file_locks[csv_path] = FALSE

\* C12: a tick of check_for_activity_signal that reads a timestamp strictly
\* greater than last_activity_time sets last_activity_time to it, returns True
\* and leaves the scheduler awake in that same tick; a tick that reads a
\* timestamp not greater leaves last_activity_time alone and never wakes a
\* sleeping scheduler.
C12_NewerSignalWakes ==
  [][SchedTick /\ tick'.read.kind = "time" =>
       IF tick'.read.time > last_activity_time
       THEN /\ last_activity_time' = tick'.read.time
            /\ ~is_sleeping'
            /\ tick'.ret = "True"
       ELSE /\ last_activity_time' = last_activity_time
            /\ tick'.ret = "False"
            /\ is_sleeping => is_sleeping']_vars

C12_Witness ==
  /\ tick.op = "check_for_activity_signal"
  /\ tick.was_sleeping /\ ~is_sleeping
  /\ tick.ret = "True"
  /\ tick.read.kind = "time"
  /\ last_activity_time = tick.read.time

\* C13: a tick while awake with no newer signal puts the scheduler to sleep
\* when more than 900 seconds have passed since last_activity_time, and leaves
\* it awake when 900 seconds or fewer have passed.
C13_SleepsAfterFifteenMinutes ==
  [][SchedTick /\ ~is_sleeping /\ tick'.ret = "False" =>
       /\ now - last_activity_time > 900 => is_sleeping'
       /\ now - last_activity_time <= 900 => ~is_sleeping'
       /\ last_activity_time' = last_activity_time]_vars

C13_Witness ==
  /\ tick.op = "check_for_activity_signal"
  /\ ~tick.was_sleeping /\ is_sleeping
  /\ tick.ret = "False"
  /\ now - last_activity_time = 901

\* C16: a tick that finds the signal file absent, empty or holding text that is
\* not a number raises no error, returns False, leaves last_activity_time
\* unchanged and does not wake a sleeping scheduler.
C16_UnusableSignalIsIgnored ==
  [][SchedTick /\ tick'.read.kind \in {"absent", "empty", "text"} =>
       /\ ~tick'.raised
       /\ tick'.ret = "False"
       /\ last_activity_time' = last_activity_time
       /\ is_sleeping => is_sleeping']_vars

C16_Witness ==
  /\ tick.op = "check_for_activity_signal"
  /\ tick.read.kind = "text"
  /\ tick.was_sleeping /\ is_sleeping
  /\ tick.ret = "False" /\ ~tick.raised

\* C14: the main loop enters a scheduled cycle only with is_sleeping False; an
\* iteration that finds the scheduler asleep and no newer signal reads and
\* writes no table, sends no batch, publishes nothing and at most calls
\* ensure_connected().
C14_AsleepSkipsTheCycle ==
  [][/\ (pc = "decide" /\ pc' = "cycle") => ~is_sleeping
     /\ (pc \in {"loop", "decide"} /\ is_sleeping /\ is_sleeping') =>
          /\ pc' \in {"loop", "decide", "wait", "stopped"}
          /\ UNCHANGED <<csv, db, stats, last, files_to_update, chosen>>
          /\ \/ dbm' = dbm
             \/ pc' = "stopped"
             \/ \E m \in ConnInputs(DefaultInput, dbm, MaxFaults) :
                   dbm' = ensure_connected(dbm, now, m.probe, m.outcomes).dbm]_vars

C14_Witness ==
  /\ pc = "wait" /\ seconds = 0
  /\ cycles = 2
  /\ is_sleeping
  /\ tick.op = "check_for_activity_signal" /\ tick.was_sleeping /\ tick.ret = "False"

\* C15: run_single_simulation_cycle with a simulator instance sets
\* last_activity_time to the current time and is_sleeping to False and then
\* runs one cycle, asleep or not, no table being touched before the two are
\* set; with no instance it returns False and changes neither.
C15_OnDemandCycleWakes ==
  [][RunSingle =>
       IF simulator_instance = "None"
       THEN /\ tick'.ret = "False"
            /\ UNCHANGED <<last_activity_time, is_sleeping, pc, files_to_update, csv, db>>
       ELSE /\ last_activity_time' = now
            /\ ~is_sleeping'
            /\ pc' = "on_demand"
            /\ files_to_update' # <<>>
            /\ UNCHANGED <<csv, db, stats>>]_vars

C15_Witness ==
  /\ pc = "on_demand"
  /\ tick.op = "run_single_simulation_cycle" /\ tick.was_sleeping
  /\ ~is_sleeping /\ last_activity_time = now
  /\ chosen # <<>> /\ files_to_update = <<>>
  /\ last.table = "parking_sensors"

FlType == COLUMN_TYPES[fl.table][fl.column]

\* C18: for a float column generate_fluctuation returns a value in [0, 100]
\* for humidity and fill_level, in [0, 14] for ph, and a value >= 0 for
\* rainfall, electricity_usage, water_usage and energy_consumption (values in
\* hundredths).
C18_FloatColumnsStayInRange ==
  (fl.done /\ FlType = "float") =>
     /\ fl.column \in {"humidity", "fill_level"} => (0 <= fl.result /\ fl.result <= 10000)
     /\ fl.column = "ph" => (0 <= fl.result /\ fl.result <= 1400)
     /\ fl.column \in {"rainfall", "electricity_usage", "water_usage", "energy_consumption"}
          => fl.result >= 0

C18_Witness ==
  /\ fl.done
  /\ fl.column = "humidity" /\ fl.value = 9900 /\ fl.d.pct = 7
  /\ fl.result = 10000

\* C19: the status column of street_lights comes out True when the hour h has
\* h >= 18 or h < 6 and False when 6 <= h < 18, for every h of 0..23 and
\* whatever the previous value; a boolean column of any other table comes out
\* as its previous value or its negation.
C19_StreetLightsFollowTheHour ==
  (fl.done /\ FlType = "bool") =>
     IF fl.table = "street_lights" /\ fl.column = "status"
     THEN /\ (fl.hour >= 18 \/ fl.hour < 6) => fl.result = TRUE
          /\ (6 <= fl.hour /\ fl.hour < 18) => fl.result = FALSE
     ELSE /\ fl.result \in {fl.value, ~fl.value}
          /\ fl.result = (IF fl.d.flip THEN ~fl.value ELSE fl.value)

C19_Witness ==
  /\ fl.done
  /\ fl.table = "street_lights" /\ fl.column = "status"
  /\ fl.hour = 18 /\ fl.value = FALSE
  /\ fl.result = TRUE

\* C20: within the processing of one table a row is published to the broker
\* only after the tabular write and the relational batch of the table have
\* been attempted, and only for a table whose content differs from the
\* original.
C20_PublishAfterPersist ==
  \A i \in DOMAIN last.calls :
     last.calls[i] = Call("publish_to_mqtt", TRUE) =>
        /\ last.changed
        /\ \E j \in 1..(i - 1) : last.calls[j].op = "write_csv"
        /\ \E j \in 1..(i - 1) : last.calls[j].op = "update_sensor_data"

\* C21: a cycle that has chosen its tables processes every one of them, even
\* if the running flag becomes False meanwhile: the cycle is left only with no
\* chosen table unprocessed.
C21_CycleRunsToCompletion ==
  [][(pc = "cycle" /\ pc' # "cycle") => files_to_update = <<>>]_vars

\* C22: every call of connect() ends after at most MAX_RETRIES
\* connect-and-probe attempts, whatever each attempt meets.
C22_ConnectAttemptsBounded ==
  \A t \in Threads : th[t].attempts <= MAX_RETRIES

\* C23: an update that fails with an error whose text holds "connection" or
\* "timeout" leaves connection_healthy False, and the next ensure_connected()
\* call, begun on the store so marked, enters the retry loop of connect()
\* before it returns.
C23_MarkedStoreForcesReconnect ==
  [][/\ (th'.marked /\ ~th.marked) => ~dbm'.connection_healthy
     /\ \A t \in Threads :
          (th[t].pc # "returned" /\ th'[t].pc = "returned" /\ th'[t].forced)
             => th'[t].looped]_vars

\* C24: a pass of the health task leaves the state it shares with the main
\* thread as it found it: the store's connection_healthy,
\* last_reconnect_attempt and engine, the cycle statistics, is_sleeping and
\* last_activity_time.
C24_HealthCheckWritesNothing ==
  [][HealthCheck => UNCHANGED <<dbm, stats, is_sleeping, last_activity_time>>]_vars

\* C25: whatever the interleaving of the main thread and the health thread,
\* no execution of connect()'s retry loop starts less than ReconnectCooldown
\* seconds after the start of the one before it.
C25_RetryLoopsTenSecondsApart ==
  ~th.too_close

RECURSIVE FilesProcessedTotal(_)
FilesProcessedTotal(f) ==
  IF DOMAIN f = {} THEN 0
  ELSE LET x == CHOOSE y \in DOMAIN f : TRUE
       IN f[x] + FilesProcessedTotal([y \in DOMAIN f \ {x} |-> f[y]])

\* C27: at every moment updates_attempted = updates_successful +
\* updates_failed, and the per-table counts of files_processed add up to
\* updates_successful.
C27_CountersAddUp ==
  /\ stats.updates_attempted = stats.updates_successful + stats.updates_failed
  /\ FilesProcessedTotal(stats.files_processed) = stats.updates_successful

\* C28: ensure_connected() returns True only when a probe of the store
\* returned 1 during that very call.
C28_TrueOnlyAfterAProbe ==
  \A t \in Threads :
     (th[t].op # "connect" /\ th[t].pc = "returned" /\ th[t].ret = "True")
        => th[t].probed

\* C29: whatever the directory holds, no file or files of no row included,
\* run_simulation_cycle returns to the main loop and main() does not leave
\* through its handler of fatal errors.
C29_NoDirectoryEndsMain ==
  pc # "crashed"

\* C30: when close() runs at shutdown no ensure_connected() or connect() call
\* of the health thread is in progress, and none is in progress afterwards.
C30_ClosedAfterHealthStopped ==
  th.closed => (~th.busy_at_close /\ th.health.pc \notin InCall)

====
